---- MODULE Spec2Model ----
(***************************************************************************)
(* Work-request intake and status workflow of SWRC-TASK-TRACKER-V3.        *)
(*                                                                         *)
(* server.ts exposes POST /api/requests (create) and                       *)
(* PATCH /api/requests/:id/status (update).  A second, older server.ts     *)
(* with its own POST /api/requests handler and schema also lives in the    *)
(* repository; it is modelled as the handler kind "create2".               *)
(*                                                                         *)
(* Every `await` of a handler is a scheduling point, so each store call    *)
(* is one action; the synchronous code that follows the call belongs to    *)
(* the same action.  The store is MySQL/InnoDB reached through mysql2:     *)
(* rows written inside a transaction are invisible to other connections    *)
(* until COMMIT, a plain SELECT is a non-locking read, an UPDATE takes an  *)
(* exclusive row lock that is held until COMMIT/ROLLBACK, and AUTO_-       *)
(* INCREMENT values are handed out at INSERT time and never reused.  Any   *)
(* store call may fail, which the driver reports by throwing.              *)
(***************************************************************************)
EXTENDS Integers, Sequences, FiniteSets, Bags, TLC

\* ---------------------------------------------------------------- bounds
NumOps == 2
NumParsed == 2

\* ----------------------------------------------------------------- state
\* A handler invocation is a record of its position and locals.  The
\* invocations in flight or finished form a bag: two invocations with the
\* same locals at the same position are interchangeable.
VARIABLES
    requests,                \* committed requests table: id -> row
    lots,                    \* committed lots table, in insertion order
    sampling_lots,           \* committed sampling_lots table
    request_status_history,  \* committed history table, in commit order
    nextId,                  \* AUTO_INCREMENT counter of requests
    rowLock,                 \* ids of the requests rows that are locked
    clock,                   \* wall clock in seconds since the epoch (UTC)
    tz,                      \* offset of the server's local time, in seconds
    ops,                     \* bag of handler invocations
    parsed                   \* outcomes of the schemas applied on their own

vars == <<requests, lots, sampling_lots, request_status_history, nextId,
          rowLock, clock, tz, ops, parsed>>

store == <<requests, lots, sampling_lots, request_status_history>>

\* ------------------------------------------------------- option values
\* JavaScript undefined / SQL NULL for values that are not strings.
None == <<>>
Some(v) == <<v>>
IsSome(x) == Len(x) = 1
Get(x) == x[1]

\* String-typed values use these markers.
UNDEFINED == "undefined"
NULL == "null"

\* a ?? b
Coalesce(a, b) == IF a = UNDEFINED \/ a = NULL THEN b ELSE a

\* ------------------------------------------------------- JSON values
\* A quantity as it arrives in the JSON body: a number (integers only
\* here), a string (a sequence of characters), null, or absent.
Num(n) == [t |-> "number", n |-> n, s |-> <<>>]
Str(s) == [t |-> "string", n |-> 0, s |-> s]
Null == [t |-> "null", n |-> 0, s |-> <<>>]
Undef == [t |-> "undefined", n |-> 0, s |-> <<>>]

Digits == <<"0", "1", "2", "3", "4", "5", "6", "7", "8", "9">>
IsDigit(c) == \E i \in 1..Len(Digits) : Digits[i] = c
DigitValue(c) == (CHOOSE i \in 1..Len(Digits) : Digits[i] = c) - 1

\* The value of a decimal digit string.
RECURSIVE DigitsValue(_)
DigitsValue(s) ==
    IF s = <<>> THEN 0
    ELSE 10 * DigitsValue(SubSeq(s, 1, Len(s) - 1)) + DigitValue(s[Len(s)])

AllDigits(s) == Len(s) >= 1 /\ \A i \in 1..Len(s) : IsDigit(s[i])

\* Number(x) as z.coerce.number() applies it: a number is itself, null and
\* the empty string are 0, a decimal string with an optional sign is its
\* value, and undefined and every other string are NaN (strings are made of
\* digits, signs and letters here).
Number(x) ==
    CASE x.t = "number" -> [nan |-> FALSE, n |-> x.n]
      [] x.t = "null" -> [nan |-> FALSE, n |-> 0]
      [] x.t = "undefined" -> [nan |-> TRUE, n |-> 0]
      [] OTHER ->
           IF x.s = <<>> THEN [nan |-> FALSE, n |-> 0]
           ELSE IF AllDigits(x.s) THEN [nan |-> FALSE, n |-> DigitsValue(x.s)]
           ELSE IF x.s[1] = "-" /\ AllDigits(Tail(x.s))
           THEN [nan |-> FALSE, n |-> 0 - DigitsValue(Tail(x.s))]
           ELSE IF x.s[1] = "+" /\ AllDigits(Tail(x.s))
           THEN [nan |-> FALSE, n |-> DigitsValue(Tail(x.s))]
           ELSE [nan |-> TRUE, n |-> 0]

\* A date as it arrives in the JSON body: "YYYY-MM-DD", a date-time without
\* offset "YYYY-MM-DDTHH:mm:ss", a date-time ending in Z, text that is no
\* date, or absent; DateValue is a JavaScript Date.  day counts days since
\* the epoch, time seconds (of the day, or since the epoch for a Date).
NoDate == [form |-> "undefined", day |-> 0, time |-> 0]
DateOnly(d) == [form |-> "date", day |-> d, time |-> 0]
LocalDateTime(d, t) == [form |-> "local", day |-> d, time |-> t]
UtcDateTime(d, t) == [form |-> "utc", day |-> d, time |-> t]
NotADate == [form |-> "unparseable", day |-> 0, time |-> 0]
DateValue(t) == [form |-> "Date", day |-> 0, time |-> t]

SecondsPerDay == 24 * 60 * 60
Hours(h) == h * 60 * 60

\* ------------------------------------------------------------- schema.ts
statusEnum == {"New", "In Progress", "Completed", "Issue"}

LotKinds == {"Lot Transfer", "Shipment Request", "Scrap Request"}

\* z.string().min(1)
NonEmptyString(s) == s # UNDEFINED /\ s # NULL /\ s # ""

\* lotSchema: lotId non-empty; unitsQuantity a non-negative integer number,
\* null or absent.  z.number() does not coerce: a string is a type issue.
lotSchemaOk(l) ==
    /\ NonEmptyString(l.lotId)
    /\ \/ l.unitsQuantity.t \in {"null", "undefined"}
       \/ l.unitsQuantity.t = "number" /\ l.unitsQuantity.n >= 0

\* samplingLotSchema: everything required, unitQuantity a strictly positive
\* integer number.
samplingLotSchemaOk(s) ==
    /\ NonEmptyString(s.lotId)
    /\ s.unitQuantity.t = "number" /\ s.unitQuantity.n > 0
    /\ NonEmptyString(s.reliabilityTest)

\* z.array(lotSchema).min(1): present, non-empty, every element valid.
lotsArrayOk(field) ==
    /\ IsSome(field)
    /\ Len(Get(field)) >= 1
    /\ \A i \in 1..Len(Get(field)) : lotSchemaOk(Get(field)[i])

\* z.array(samplingLotSchema).min(1)
samplingLotsArrayOk(field) ==
    /\ IsSome(field)
    /\ Len(Get(field)) >= 1
    /\ \A i \in 1..Len(Get(field)) : samplingLotSchemaOk(Get(field)[i])

taskPriorityEnum == {"P1", "P2", "P3"}

\* Issues of the base object shared by the four variants.  The optional
\* descriptive fields are z.string().optional().nullable(): every string,
\* the empty one included, null and undefined pass (facilityLocation stands
\* for the six fields declared this way).
baseRequestIssues(p) ==
    (IF NonEmptyString(p.username) THEN {} ELSE {"username"})
    \cup (IF p.taskPriority \in taskPriorityEnum THEN {} ELSE {"taskPriority"})

\* new Date(x) of z.coerce.date().  A date-only string is midnight UTC, a
\* date-time without offset is local time, text that is no date and
\* undefined give an Invalid Date.
NewDate(x) ==
    CASE x.form = "date" -> [valid |-> TRUE, time |-> x.day * SecondsPerDay]
      [] x.form = "utc" -> [valid |-> TRUE, time |-> x.day * SecondsPerDay + x.time]
      [] x.form = "local" ->
           [valid |-> TRUE, time |-> x.day * SecondsPerDay + x.time - tz]
      [] x.form = "Date" -> [valid |-> TRUE, time |-> x.time]
      [] OTHER -> [valid |-> FALSE, time |-> 0]

\* d.setHours(0, 0, 0, 0): midnight of the local day of the instant.
LocalMidnight(t) == ((t + tz) \div SecondsPerDay) * SecondsPerDay - tz

\* qrDate: z.coerce.date() (an Invalid Date is an issue) and the refinement
\* q >= t on the local midnights of the date and of now.
qrDateOk(x) ==
    /\ NewDate(x).valid
    /\ LocalMidnight(NewDate(x).time) >= LocalMidnight(clock)

\* Mutant: the line-item arrays lose their .min(1).
requestSchemaIssues_noMin(p) ==
    IF p.requestType \in LotKinds
    THEN baseRequestIssues(p)
         \cup (IF IsSome(p.lots) /\ \A i \in 1..Len(Get(p.lots)) : lotSchemaOk(Get(p.lots)[i])
               THEN {} ELSE {"lots"})
    ELSE IF p.requestType = "Sampling Request"
    THEN baseRequestIssues(p)
         \cup (IF NonEmptyString(p.samplingType) THEN {} ELSE {"samplingType"})
         \cup (IF qrDateOk(p.qrDate) THEN {} ELSE {"qrDate"})
         \cup (IF NonEmptyString(p.projectName) THEN {} ELSE {"projectName"})
         \cup (IF IsSome(p.samplingLots)
                  /\ \A i \in 1..Len(Get(p.samplingLots)) :
                        samplingLotSchemaOk(Get(p.samplingLots)[i])
               THEN {} ELSE {"samplingLots"})
    ELSE {"invalid_union_discriminator"}

\* Mutant: a plain union whose last variant takes any other request kind.
requestSchemaIssues_fallsThrough(p) ==
    IF p.requestType = "Sampling Request"
    THEN baseRequestIssues(p)
         \cup (IF NonEmptyString(p.samplingType) THEN {} ELSE {"samplingType"})
         \cup (IF qrDateOk(p.qrDate) THEN {} ELSE {"qrDate"})
         \cup (IF NonEmptyString(p.projectName) THEN {} ELSE {"projectName"})
         \cup (IF samplingLotsArrayOk(p.samplingLots)
               THEN {} ELSE {"samplingLots"})
    ELSE baseRequestIssues(p)
         \cup (IF lotsArrayOk(p.lots) THEN {} ELSE {"lots"})

\* requestSchema (z.discriminatedUnion on requestType) as safeParse computes
\* it.  An unknown discriminator yields the single union issue.  The chosen
\* variant is a plain z.object, so keys it does not declare are stripped
\* from the parsed data.
requestSchemaIssues(p) ==
    IF p.requestType \in LotKinds
    THEN baseRequestIssues(p)
         \cup (IF lotsArrayOk(p.lots) THEN {} ELSE {"lots"})
    ELSE IF p.requestType = "Sampling Request"
    THEN baseRequestIssues(p)
         \cup (IF NonEmptyString(p.samplingType) THEN {} ELSE {"samplingType"})
         \cup (IF qrDateOk(p.qrDate) THEN {} ELSE {"qrDate"})
         \cup (IF NonEmptyString(p.projectName) THEN {} ELSE {"projectName"})
         \cup (IF samplingLotsArrayOk(p.samplingLots)
               THEN {} ELSE {"samplingLots"})
    ELSE {"invalid_union_discriminator"}

\* Mutant: the variants pass unknown keys through instead of stripping them.
requestSchemaData_passthrough(p) == p

\* The parsed data: the keys of the chosen variant, qrDate as a Date.
requestSchemaData(p) ==
    IF p.requestType \in LotKinds
    THEN [p EXCEPT !.samplingType = UNDEFINED, !.samplingLots = None,
                   !.qrDate = NoDate, !.projectName = UNDEFINED]
    ELSE [p EXCEPT !.lots = None, !.qrDate = DateValue(NewDate(@).time)]

\* -------------------------------------------- schema.ts of the older server
\* lotSchema of the older schema: unitsQuantity goes through Number() and
\* must come out a non-negative integer.
lotSchema2Ok(l) ==
    /\ NonEmptyString(l.lotId)
    /\ ~Number(l.unitsQuantity).nan /\ Number(l.unitsQuantity).n >= 0

\* requestSchema of the older schema: a flat z.object over three kinds.
requestSchema2Issues(p) ==
    (IF NonEmptyString(p.username) THEN {} ELSE {"username"})
    \cup (IF p.requestType \in LotKinds THEN {} ELSE {"requestType"})
    \cup (IF p.taskPriority \in taskPriorityEnum THEN {} ELSE {"taskPriority"})
    \cup (IF IsSome(p.lots) /\ Len(Get(p.lots)) >= 1
             /\ \A i \in 1..Len(Get(p.lots)) : lotSchema2Ok(Get(p.lots)[i]) THEN {} ELSE {"lots"})

\* The parsed data: the declared keys, each quantity as the number it was
\* coerced to.
requestSchema2Data(p) ==
    LET ls == Get(p.lots)
    IN [p EXCEPT !.samplingType = UNDEFINED, !.samplingLots = None,
                 !.qrDate = NoDate, !.projectName = UNDEFINED,
                 !.lots = Some([i \in 1..Len(ls) |->
                                  [lotId |-> ls[i].lotId,
                                   unitsQuantity |->
                                       Num(Number(ls[i].unitsQuantity).n)]])]

\* requestStatusUpdateSchema
requestStatusUpdateSchemaIssues(b) ==
    (IF b.status \in statusEnum THEN {} ELSE {"status"})
    \cup (IF b.executor = "" THEN {"executor"} ELSE {})

\* ---------------------------------------------------------------- inputs
LotA == [lotId |-> "L1", unitsQuantity |-> Num(5)]
LotB == [lotId |-> " L2 ", unitsQuantity |-> Undef]
SLotA == [lotId |-> "S1", unitQuantity |-> Num(3), reliabilityTest |-> "HTOL"]

\* String(x).trim() on the strings the inputs use.
Trim(s) == IF s = " L2 " THEN "L2" ELSE s

\* A request body.  A Sampling Request carries a quality-release date well
\* ahead unless an input says otherwise.
FarAhead == DateOnly(30)

\* Unless an input says otherwise the priority is P1, no descriptive field
\* is sent and a Sampling Request names a project.
Payload(u, k, l, st, sl) ==
    [username |-> u, requestType |-> k, lots |-> l,
     samplingType |-> st, samplingLots |-> sl,
     qrDate |-> IF k = "Sampling Request" THEN FarAhead ELSE NoDate,
     projectName |-> IF k = "Sampling Request" THEN "Apollo" ELSE UNDEFINED,
     taskPriority |-> "P1",
     facilityLocation |-> UNDEFINED]

Payloads ==
    { Payload("alice", "Lot Transfer", Some(<<LotA, LotB>>), UNDEFINED, None),
      Payload("alice", "Shipment Request", Some(<<LotA>>), UNDEFINED, None),
      Payload("alice", "Scrap Request", Some(<<LotA>>), "HTOL", Some(<<SLotA>>)),
      Payload("alice", "Sampling Request", None, "HTOL", Some(<<SLotA>>)),
      Payload("alice", "Sampling Request", Some(<<LotA>>), "HTOL", Some(<<SLotA>>)),
      Payload("alice", "Lot Transfer", None, UNDEFINED, None),
      Payload("alice", "Scrap Request", Some(<<>>), UNDEFINED, None),
      Payload("alice", "Sampling Request", Some(<<LotA>>), "HTOL", Some(<<>>)),
      Payload("alice", "Bogus", Some(<<LotA>>), UNDEFINED, None),
      Payload("", "Shipment Request", Some(<<LotA>>), UNDEFINED, None) }

\* Bodies for the schemas applied on their own: one lot or sampling lot
\* with each kind of quantity, each form of quality-release date, and the
\* line-item collection missing or empty for each kind.
LotBody(q) ==
    Payload("alice", "Lot Transfer",
            Some(<<[lotId |-> "L1", unitsQuantity |-> q]>>), UNDEFINED, None)

SamplingBody(q, d) ==
    [Payload("alice", "Sampling Request", None, "HTOL",
             Some(<<[lotId |-> "S1", unitQuantity |-> q,
                     reliabilityTest |-> "HTOL"]>>))
       EXCEPT !.qrDate = d]

Quantities ==
    { Num(5), Str(<<"5">>), Num(12), Str(<<"1", "2">>), Num(0), Str(<<"0">>),
      Num(0 - 1), Str(<<"-", "1">>), Str(<<"a", "b", "c">>), Str(<<>>),
      Null, Undef }

QrDates ==
    { DateOnly(0), DateOnly(1), DateOnly(2),
      LocalDateTime(0, Hours(23)), LocalDateTime(1, Hours(23)),
      UtcDateTime(1, Hours(12)), NotADate, NoDate }

UnitQuantities ==
    {Num(3), Str(<<"3">>), Num(0), Str(<<"a", "b", "c">>), Undef}

QuantityBodies ==
    {LotBody(q) : q \in Quantities}
    \cup {SamplingBody(q, FarAhead) : q \in UnitQuantities}

QrDateBodies == {SamplingBody(Num(3), d) : d \in QrDates}

EdgeBodies ==
    {Payload("alice", k, l, UNDEFINED, None) :
        k \in LotKinds \cup {"Bogus"}, l \in {None, Some(<<>>), Some(<<LotA>>)}}
    \cup {Payload("alice", "Sampling Request", l, "HTOL", sl) :
             l \in {None, Some(<<LotA>>)}, sl \in {None, Some(<<>>)}}
    \cup {Payload("alice", "Bogus", None, "HTOL", Some(<<SLotA>>))}

\* A descriptive field absent, null, empty and filled in.
FacilityLocations == {UNDEFINED, NULL, "", "Bldg 5"}

FacilityBodies ==
    {[Payload("alice", "Lot Transfer", Some(<<LotA>>), UNDEFINED, None)
        EXCEPT !.facilityLocation = f] : f \in FacilityLocations}

\* Bodies that break up to three constraints at once: the submitter, the
\* priority and the request kind (unrecognized or missing).
ViolationBodies ==
    {[Payload(u, k, Some(<<LotA>>), UNDEFINED, None)
        EXCEPT !.taskPriority = t] :
        u \in {"alice", ""}, t \in {"P1", "P9"},
        k \in {"Lot Transfer", "Bogus", UNDEFINED}}

Bodies ==
    QuantityBodies \cup QrDateBodies \cup EdgeBodies
    \cup FacilityBodies \cup ViolationBodies
Bodies2 == QuantityBodies \cup EdgeBodies

\* req.params.id after Number() (a finite number or NaN) and req.body.
Body(st, e, n) == [status |-> st, executor |-> e, note |-> n]
IdParam(n) == [finite |-> TRUE, n |-> n]
NaN == [finite |-> FALSE, n |-> 0]

UpdateInputs ==
    ({IdParam(1)} \X { Body("New", UNDEFINED, UNDEFINED),
                       Body("In Progress", "bob", UNDEFINED),
                       Body("Completed", UNDEFINED, UNDEFINED),
                       Body("Issue", UNDEFINED, "damaged"),
                       Body("Issue", UNDEFINED, UNDEFINED),
                       Body("Bogus", UNDEFINED, UNDEFINED),
                       Body("In Progress", "", UNDEFINED) })
    \cup ({IdParam(2)} \X { Body("In Progress", UNDEFINED, UNDEFINED) })
    \cup ({IdParam(3)} \X { Body("Completed", "bob", UNDEFINED) })
    \cup ({NaN} \X { Body("Completed", UNDEFINED, UNDEFINED),
                     Body("Bogus", UNDEFINED, UNDEFINED) })

\* ---------------------------------------------------------------- locals
NoData ==
    [Payload(UNDEFINED, UNDEFINED, None, UNDEFINED, None)
       EXCEPT !.taskPriority = UNDEFINED]
NoUpd == [id |-> 0, status |-> UNDEFINED, executor |-> UNDEFINED, note |-> UNDEFINED]
NoResp == [status |-> 0, body |-> "none", id |-> 0]
EmptyTxn == [req |-> None, lots |-> <<>>, sampling |-> <<>>, upd |-> None, hist |-> <<>>]

\* An invocation that has just been dispatched to handler k.
NewOp(k) ==
    [kind |-> k,              \* "create", "create2" or "update"
     pc |-> "start",          \* the store call it awaits, or "done"
     data |-> NoData,         \* parsed.data of a create
     upd |-> NoUpd,           \* id and parsed.data of an update-status
     requestId |-> 0,         \* result.insertId
     oldStatus |-> NULL,      \* status read by the SELECT
     nowSQL |-> 0,            \* timestamp taken by an update-status
     txn |-> EmptyTxn,        \* uncommitted writes of its transaction
     conn |-> "none",         \* "none", "held" or "released"
     releases |-> 0,          \* number of conn.release() calls
     resp |-> NoResp]         \* response sent, status 0 when none

Running == BagToSet(ops)

\* --------------------------------------------------------------- helpers
\* A step of a handler leaves the time zone of the process alone.
Dispatch(r) ==
    /\ BagCardinality(ops) < NumOps
    /\ ops' = ops (+) SetToBag({r})
    /\ UNCHANGED <<tz, parsed>>

Becomes(r, r2) ==
    /\ ops' = (ops (-) SetToBag({r})) (+) SetToBag({r2})
    /\ UNCHANGED <<tz, parsed>>

Respond(r, st, body, id) ==
    [r EXCEPT !.resp = [status |-> st, body |-> body, id |-> id]]

\* The handler returns or throws: its locals go out of scope.
Ended(r) ==
    [r EXCEPT !.pc = "done", !.data = NoData, !.upd = NoUpd,
              !.oldStatus = NULL, !.nowSQL = 0]

\* conn.release() of the finally block, which ends the handler.
Release(r) ==
    Ended([r EXCEPT !.conn = "released", !.releases = @ + 1])

\* The row lock of r's transaction, if it has one.
HeldBy(r) == IF IsSome(r.txn.upd) THEN {r.upd.id} ELSE {}

\* The guards of the two child inserts.
InsertsLots(d) == IsSome(d.lots) /\ Len(Get(d.lots)) > 0
InsertsSamplingLots(d) ==
    d.requestType = "Sampling Request" /\ IsSome(d.samplingLots)
    /\ Len(Get(d.samplingLots)) > 0

AfterLots(d) == IF InsertsSamplingLots(d) THEN "insertSamplingLots" ELSE "commit"
AfterRequest(d) == IF InsertsLots(d) THEN "insertLots" ELSE AfterLots(d)

\* toMySqlDateTime(d): null for a missing or invalid date, else the date
\* and time of day in the server's local time.
toMySqlDateTime(d) ==
    IF d.form # "Date" THEN None
    ELSE Some([day |-> (d.time + tz) \div SecondsPerDay,
               time |-> (d.time + tz) % SecondsPerDay])

\* The row of INSERT INTO requests; status and the workflow columns take
\* the table defaults.
DefaultStatus == "New"

\* Mutant: the insert names the executor column and fills it with the
\* submitter.
RequestRow_withExecutor(d, now) ==
    [username |-> d.username,
     request_type |-> d.requestType,
     task_priority |-> d.taskPriority,
     facility_location |-> Coalesce(d.facilityLocation, NULL),
     sampling_type |-> IF d.requestType = "Sampling Request"
                       THEN d.samplingType ELSE NULL,
     qr_date |-> IF d.requestType = "Sampling Request"
                 THEN toMySqlDateTime(d.qrDate) ELSE None,
     project_name |-> IF d.requestType = "Sampling Request"
                      THEN d.projectName ELSE NULL,
     status |-> DefaultStatus,
     executor |-> d.username,
     issue_note |-> NULL,
     started_at |-> None,
     completed_at |-> None,
     updated_at |-> now]

\* Mutant: the INSERT names no sampling column, as in the older server.ts.
RequestRow_noSamplingColumns(d, now) ==
    [username |-> d.username,
     request_type |-> d.requestType,
     task_priority |-> d.taskPriority,
     facility_location |-> Coalesce(d.facilityLocation, NULL),
     sampling_type |-> NULL,
     qr_date |-> None,
     project_name |-> NULL,
     status |-> DefaultStatus,
     executor |-> NULL,
     issue_note |-> NULL,
     started_at |-> None,
     completed_at |-> None,
     updated_at |-> now]

RequestRow(d, now) ==
    [username |-> d.username,
     request_type |-> d.requestType,
     task_priority |-> d.taskPriority,
     facility_location |-> Coalesce(d.facilityLocation, NULL),
     sampling_type |-> IF d.requestType = "Sampling Request"
                       THEN d.samplingType ELSE NULL,
     qr_date |-> IF d.requestType = "Sampling Request"
                 THEN toMySqlDateTime(d.qrDate) ELSE None,
     project_name |-> IF d.requestType = "Sampling Request"
                      THEN d.projectName ELSE NULL,
     status |-> DefaultStatus,
     executor |-> NULL,
     issue_note |-> NULL,
     started_at |-> None,
     completed_at |-> None,
     updated_at |-> now]

\* l.unitsQuantity ?? null as a column value.
LotRow(id, l) ==
    [request_id |-> id, lot_id |-> Trim(l.lotId),
     units_quantity |-> IF l.unitsQuantity.t = "number"
                        THEN Some(l.unitsQuantity.n) ELSE None]

SamplingLotRow(id, s) ==
    [request_id |-> id, lot_id |-> Trim(s.lotId),
     unit_quantity |-> Number(s.unitQuantity).n,
     reliability_test |-> Trim(s.reliabilityTest)]

\* lot rows of the older handler: lotId and the coerced quantity are stored
\* as parsed.
LotRow2(id, l) ==
    [request_id |-> id, lot_id |-> l.lotId,
     units_quantity |-> Some(l.unitsQuantity.n)]

\* Mutant: the timestamps are assigned without COALESCE.
UpdatedRow_overwrites(cur, u, now) ==
    [cur EXCEPT
       !.status = u.status,
       !.updated_at = now,
       !.executor = IF u.executor # UNDEFINED THEN Coalesce(u.executor, NULL) ELSE @,
       !.started_at = IF u.status = "In Progress" THEN Some(now) ELSE @,
       !.completed_at = IF u.status = "Completed" THEN Some(now) ELSE @,
       !.issue_note = IF u.status = "Issue" THEN Coalesce(u.note, NULL) ELSE @]

\* Mutant: issue_note is assigned through COALESCE like the timestamps, so
\* the first note stays.
UpdatedRow_keepsNote(cur, u, now) ==
    [cur EXCEPT
       !.status = u.status,
       !.updated_at = now,
       !.executor = IF u.executor # UNDEFINED THEN Coalesce(u.executor, NULL) ELSE @,
       !.started_at = IF u.status = "In Progress" /\ ~IsSome(@) THEN Some(now) ELSE @,
       !.completed_at = IF u.status = "Completed" /\ ~IsSome(@) THEN Some(now) ELSE @,
       !.issue_note = IF u.status = "Issue" /\ @ = NULL THEN Coalesce(u.note, NULL)
                      ELSE @]

\* Mutant: a Completed request keeps its status.
UpdatedRow_terminal(cur, u, now) ==
    [cur EXCEPT
       !.status = IF @ = "Completed" THEN @ ELSE u.status,
       !.updated_at = now,
       !.executor = IF u.executor # UNDEFINED THEN Coalesce(u.executor, NULL) ELSE @,
       !.started_at = IF u.status = "In Progress" /\ ~IsSome(@) THEN Some(now) ELSE @,
       !.completed_at = IF u.status = "Completed" /\ ~IsSome(@) THEN Some(now) ELSE @,
       !.issue_note = IF u.status = "Issue" THEN Coalesce(u.note, NULL) ELSE @]

\* The row the dynamic UPDATE produces from the current row.
UpdatedRow(cur, u, now) ==
    [cur EXCEPT
       !.status = u.status,
       !.updated_at = now,
       !.executor = IF u.executor # UNDEFINED THEN Coalesce(u.executor, NULL) ELSE @,
       !.started_at = IF u.status = "In Progress" /\ ~IsSome(@) THEN Some(now) ELSE @,
       !.completed_at = IF u.status = "Completed" /\ ~IsSome(@) THEN Some(now) ELSE @,
       !.issue_note = IF u.status = "Issue" THEN Coalesce(u.note, NULL) ELSE @]

\* Mutant: the requested status is recorded as the old status too.
HistoryRow_sameStatus(id, old, u) ==
    [request_id |-> id, old_status |-> u.status, new_status |-> u.status,
     executor |-> Coalesce(u.executor, NULL), note |-> Coalesce(u.note, NULL)]

\* Mutant: the old and the new status change places in the history entry.
HistoryRow_swapped(id, old, u) ==
    [request_id |-> id, old_status |-> u.status, new_status |-> old,
     executor |-> Coalesce(u.executor, NULL), note |-> Coalesce(u.note, NULL)]

HistoryRow(id, old, u) ==
    [request_id |-> id, old_status |-> old, new_status |-> u.status,
     executor |-> Coalesce(u.executor, NULL), note |-> Coalesce(u.note, NULL)]



\* Mutant: the commit replaces the history table by the entries of the
\* transaction.
Applied_replacesHistory(r) ==
    LET t == r.txn
        r1 == IF IsSome(t.req) THEN (r.requestId :> Get(t.req)) @@ requests
              ELSE requests
        r2 == IF IsSome(t.upd) THEN [r1 EXCEPT ![r.upd.id] = Get(t.upd)] ELSE r1
    IN [requests |-> r2,
        lots |-> lots \o t.lots,
        sampling_lots |-> sampling_lots \o t.sampling,
        history |-> t.hist]

\* Mutant: the UPDATE has no WHERE clause and rewrites every request row.
Applied_noWhere(r) ==
    LET t == r.txn
        r1 == IF IsSome(t.req) THEN (r.requestId :> Get(t.req)) @@ requests
              ELSE requests
        r2 == IF IsSome(t.upd) THEN [id \in DOMAIN r1 |-> Get(t.upd)] ELSE r1
    IN [requests |-> r2,
        lots |-> lots \o t.lots,
        sampling_lots |-> sampling_lots \o t.sampling,
        history |-> request_status_history \o t.hist]

\* The committed tables after the transaction of r is applied.
Applied(r) ==
    LET t == r.txn
        r1 == IF IsSome(t.req) THEN (r.requestId :> Get(t.req)) @@ requests
              ELSE requests
        r2 == IF IsSome(t.upd) THEN [r1 EXCEPT ![r.upd.id] = Get(t.upd)] ELSE r1
    IN [requests |-> r2,
        lots |-> lots \o t.lots,
        sampling_lots |-> sampling_lots \o t.sampling,
        history |-> request_status_history \o t.hist]

\* ------------------------------------------------------------------ init
\* The tables outlive the server process.  The server starts on a database
\* that holds two requests created earlier and not yet worked on: a Lot
\* Transfer with two lots and a Sampling Request.  It runs in UTC.
StoredLotTransfer ==
    requestSchemaData(Payload("alice", "Lot Transfer", Some(<<LotA, LotB>>),
                              UNDEFINED, None))
StoredSampling ==
    requestSchemaData(Payload("alice", "Sampling Request", None, "HTOL",
                              Some(<<SLotA>>)))

Init ==
    /\ clock = 1
    /\ tz = 0
    /\ requests = <<RequestRow(StoredLotTransfer, 1), RequestRow(StoredSampling, 1)>>
    /\ lots = <<LotRow(1, LotA), LotRow(1, LotB)>>
    /\ sampling_lots = <<SamplingLotRow(2, SLotA)>>
    /\ request_status_history = <<>>
    /\ nextId = 3
    /\ rowLock = {}
    /\ ops = EmptyBag
    /\ parsed = {}

\* -------------------------------------------- POST /api/requests (server.ts)
\* safeParse and, for a valid payload, the call of pool.getConnection().
StartCreate(p) ==
    /\ Dispatch(IF requestSchemaIssues(p) # {}
                THEN Ended(Respond(NewOp("create"), 400, "issues", 0))
                ELSE [NewOp("create") EXCEPT !.data = requestSchemaData(p),
                                             !.pc = "getConnection"])
    /\ UNCHANGED <<store, nextId, rowLock, clock>>

\* ------------------------------------- POST /api/requests (older server.ts)
\* requestSchema.parse throws on an invalid payload; the outer catch answers
\* 400 with the message of the error.
StartCreate2(p) ==
    /\ Dispatch(IF requestSchema2Issues(p) # {}
                THEN Ended(Respond(NewOp("create2"), 400, "error text", 0))
                ELSE [NewOp("create2") EXCEPT !.data = requestSchema2Data(p),
                                              !.pc = "getConnection"])
    /\ UNCHANGED <<store, nextId, rowLock, clock>>

\* ------------------------------------------ PATCH /api/requests/:id/status
\* Number(req.params.id), safeParse of the body and, when both are fine,
\* the call of pool.getConnection().
\* Mutant: the body is validated before the id.
StartUpdate_bodyFirst(idp, b) ==
    /\ Dispatch(IF requestStatusUpdateSchemaIssues(b) # {}
                THEN Ended(Respond(NewOp("update"), 400, "issues", 0))
                ELSE IF ~idp.finite
                THEN Ended(Respond(NewOp("update"), 400, "invalid id", 0))
                ELSE [NewOp("update") EXCEPT
                        !.upd = [id |-> idp.n, status |-> b.status,
                                 executor |-> b.executor, note |-> b.note],
                        !.pc = "getConnection"])
    /\ UNCHANGED <<store, nextId, rowLock, clock>>

StartUpdate(idp, b) ==
    /\ Dispatch(IF ~idp.finite
                THEN Ended(Respond(NewOp("update"), 400, "invalid id", 0))
                ELSE IF requestStatusUpdateSchemaIssues(b) # {}
                THEN Ended(Respond(NewOp("update"), 400, "issues", 0))
                ELSE [NewOp("update") EXCEPT
                        !.upd = [id |-> idp.n, status |-> b.status,
                                 executor |-> b.executor, note |-> b.note],
                        !.pc = "getConnection"])
    /\ UNCHANGED <<store, nextId, rowLock, clock>>

\* ------------------------------------------------------ steps on the store
\* Every store call either returns or throws.  In server.ts a throw inside
\* the try block leads to the catch block, which calls conn.rollback().
Thrown(r) == [r EXCEPT !.pc = "rollback"]

\* The async handler throws outside its try/catch: its promise is rejected.
\* What the caller then sees depends on the Express release the server is
\* built with: Express 4 ignores the promise and nothing is sent, Express 5
\* passes the error to its default error handler, which answers 500.
Unhandled(r) == {r, Respond(r, 500, "framework", 0)}

\* await pool.getConnection().  In server.ts the call is outside the try, so
\* a failure rejects the handler's promise; in the older handler the outer
\* catch answers.
GetConnection(r) ==
    /\ r.pc = "getConnection"
    /\ \/ Becomes(r, [r EXCEPT !.conn = "held", !.pc = "beginTransaction"])
       \/ \E o \in Unhandled(r) :
             Becomes(r, IF r.kind = "create2"
                        THEN Ended(Respond(r, 400, "error text", 0))
                        ELSE Ended(o))
    /\ UNCHANGED <<store, nextId, rowLock, clock>>

\* await conn.beginTransaction()
BeginTransaction(r) ==
    /\ r.pc = "beginTransaction"
    /\ \/ Becomes(r, [r EXCEPT !.pc = IF r.kind = "update" THEN "selectStatus"
                                      ELSE "insertRequest"])
       \/ Becomes(r, Thrown(r))
    /\ UNCHANGED <<store, nextId, rowLock, clock>>

\* Mutant: the parent insert runs on the pool, outside the transaction.
InsertRequest_autocommit(r) ==
    /\ r.pc = "insertRequest"
    /\ \/ /\ Becomes(r, [r EXCEPT
                           !.requestId = nextId,
                           !.pc = IF r.kind = "create2" THEN "insertLots"
                                  ELSE AfterRequest(r.data)])
          /\ requests' = (nextId :> RequestRow(r.data, clock)) @@ requests
          /\ nextId' = nextId + 1
       \/ /\ Becomes(r, Thrown(r))
          /\ UNCHANGED <<requests, nextId>>
    /\ UNCHANGED <<lots, sampling_lots, request_status_history, rowLock, clock>>

\* Mutant: the store hands out the same identifier again.
InsertRequest_sameId(r) ==
    /\ r.pc = "insertRequest"
    /\ \/ Becomes(r, [r EXCEPT
                        !.txn.req = Some(RequestRow(r.data, clock)),
                        !.requestId = nextId,
                        !.pc = IF r.kind = "create2" THEN "insertLots"
                               ELSE AfterRequest(r.data)])
       \/ Becomes(r, Thrown(r))
    /\ UNCHANGED <<store, nextId, rowLock, clock>>

\* INSERT INTO requests, then requestId = result.insertId.
InsertRequest(r) ==
    /\ r.pc = "insertRequest"
    /\ \/ /\ Becomes(r, [r EXCEPT
                           !.txn.req = Some(RequestRow(r.data, clock)),
                           !.requestId = nextId,
                           !.pc = IF r.kind = "create2" THEN "insertLots"
                                  ELSE AfterRequest(r.data)])
          /\ nextId' = nextId + 1
       \/ /\ Becomes(r, Thrown(r))
          /\ nextId' = nextId
    /\ UNCHANGED <<store, rowLock, clock>>

\* INSERT INTO lots ... VALUES ? (one bulk statement)
InsertLots(r) ==
    /\ r.pc = "insertLots"
    /\ \/ LET ls == Get(r.data.lots)
              rows == [i \in 1..Len(ls) |->
                         IF r.kind = "create2" THEN LotRow2(r.requestId, ls[i])
                         ELSE LotRow(r.requestId, ls[i])]
          IN Becomes(r, [r EXCEPT !.txn.lots = rows,
                                  !.pc = IF r.kind = "create2" THEN "commit"
                                         ELSE AfterLots(r.data)])
       \/ Becomes(r, Thrown(r))
    /\ UNCHANGED <<store, nextId, rowLock, clock>>

\* INSERT INTO sampling_lots ... VALUES ? (one bulk statement)
InsertSamplingLots(r) ==
    /\ r.pc = "insertSamplingLots"
    /\ \/ LET ss == Get(r.data.samplingLots)
              rows == [i \in 1..Len(ss) |-> SamplingLotRow(r.requestId, ss[i])]
          IN Becomes(r, [r EXCEPT !.txn.sampling = rows, !.pc = "commit"])
       \/ Becomes(r, Thrown(r))
    /\ UNCHANGED <<store, nextId, rowLock, clock>>

\* Mutant: the rows.length check is missing; the UPDATE matches no row and
\* the handler goes on to the history insert.
SelectStatus_noRowCheck(r) ==
    /\ r.pc = "selectStatus"
    /\ \/ /\ r.upd.id \notin DOMAIN requests
          /\ Becomes(r, [r EXCEPT !.nowSQL = clock + 1, !.pc = "insertHistory"])
          /\ clock' = clock + 1
       \/ /\ r.upd.id \in DOMAIN requests
          /\ Becomes(r, [r EXCEPT !.oldStatus = requests[r.upd.id].status,
                                  !.nowSQL = clock + 1,
                                  !.pc = "updateRow"])
          /\ clock' = clock + 1
       \/ /\ Becomes(r, Thrown(r))
          /\ clock' = clock
    /\ UNCHANGED <<store, nextId, rowLock>>

\* SELECT status FROM requests WHERE id = ? (a non-locking read of the
\* committed table), then the synchronous code up to the UPDATE call:
\* oldStatus, nowSQL = toMySqlDateTime(new Date()); the clock has moved on
\* since the last timestamp was taken.  No row: the handler calls
\* conn.rollback().
SelectStatus(r) ==
    /\ r.pc = "selectStatus"
    /\ \/ /\ r.upd.id \notin DOMAIN requests
          /\ Becomes(r, [r EXCEPT !.pc = "rollbackNotFound"])
          /\ clock' = clock
       \/ /\ r.upd.id \in DOMAIN requests
          /\ Becomes(r, [r EXCEPT !.oldStatus = requests[r.upd.id].status,
                                  !.nowSQL = clock + 1,
                                  !.pc = "updateRow"])
          /\ clock' = clock + 1
       \/ /\ Becomes(r, Thrown(r))
          /\ clock' = clock
    /\ UNCHANGED <<store, nextId, rowLock>>

\* await conn.rollback() of the not-found branch, then 404.  It is inside
\* the try: when it throws, the catch block rolls back again.
RollbackNotFound(r) ==
    /\ r.pc = "rollbackNotFound"
    /\ \/ Becomes(r, Release(Respond(r, 404, "not found", 0)))
       \/ Becomes(r, Thrown(r))
    /\ UNCHANGED <<store, nextId, rowLock, clock>>

\* Mutant: the UPDATE runs on the pool, outside the transaction.
UpdateRow_autocommit(r) ==
    /\ r.pc = "updateRow"
    /\ \/ /\ r.upd.id \notin rowLock
          /\ Becomes(r, [r EXCEPT !.pc = "insertHistory"])
          /\ requests' = [requests EXCEPT
                            ![r.upd.id] = UpdatedRow(@, r.upd, r.nowSQL)]
       \/ /\ Becomes(r, Thrown(r))
          /\ requests' = requests
    /\ UNCHANGED <<lots, sampling_lots, request_status_history, nextId, rowLock,
                   clock>>

\* UPDATE requests SET ... WHERE id = ?.  The statement waits for the row
\* lock, works on the latest committed row and keeps the lock until the
\* transaction ends.
UpdateRow(r) ==
    /\ r.pc = "updateRow"
    /\ \/ /\ r.upd.id \notin rowLock
          /\ Becomes(r, [r EXCEPT
                           !.txn.upd = Some(UpdatedRow(requests[r.upd.id], r.upd,
                                                       r.nowSQL)),
                           !.pc = "insertHistory"])
          /\ rowLock' = rowLock \cup {r.upd.id}
       \/ /\ Becomes(r, Thrown(r))
          /\ rowLock' = rowLock
    /\ UNCHANGED <<store, nextId, clock>>

\* INSERT INTO request_status_history
InsertHistory(r) ==
    /\ r.pc = "insertHistory"
    /\ \/ Becomes(r, [r EXCEPT
                        !.txn.hist = <<HistoryRow(r.upd.id, r.oldStatus, r.upd)>>,
                        !.pc = "commit"])
       \/ Becomes(r, Thrown(r))
    /\ UNCHANGED <<store, nextId, rowLock, clock>>

\* The success response of each handler.
Success(r) ==
    CASE r.kind = "create" -> Respond(r, 200, "id", r.requestId)
      [] r.kind = "create2" -> Respond(r, 201, "id", r.requestId)
      [] OTHER -> Respond(r, 200, "ok", 0)

\* Mutant: the success response is sent before conn.commit() is awaited.
Commit_respondsFirst(r) ==
    /\ r.pc = "commit"
    /\ \/ /\ requests' = Applied(r).requests
          /\ lots' = Applied(r).lots
          /\ sampling_lots' = Applied(r).sampling_lots
          /\ request_status_history' = Applied(r).history
          /\ rowLock' = rowLock \ HeldBy(r)
          /\ Becomes(r, Release([Success(r) EXCEPT !.txn = EmptyTxn]))
       \/ /\ Becomes(r, Thrown(Success(r)))
          /\ UNCHANGED <<store, rowLock>>
    /\ UNCHANGED <<nextId, clock>>

\* await conn.commit(), then the success response and the finally block.
Commit(r) ==
    /\ r.pc = "commit"
    /\ \/ /\ requests' = Applied(r).requests
          /\ lots' = Applied(r).lots
          /\ sampling_lots' = Applied(r).sampling_lots
          /\ request_status_history' = Applied(r).history
          /\ rowLock' = rowLock \ HeldBy(r)
          /\ Becomes(r, Release([Success(r) EXCEPT !.txn = EmptyTxn]))
       \/ /\ Becomes(r, Thrown(r))
          /\ UNCHANGED <<store, rowLock>>
    /\ UNCHANGED <<nextId, clock>>

\* The failure response: server.ts answers 500 with a fixed message; the
\* older handler rethrows and its outer catch answers 400 with the message
\* of the error.
Failure(r) ==
    IF r.kind = "create2" THEN Respond(r, 400, "error text", 0)
    ELSE Respond(r, 500, "generic", 0)

\* Mutant: the catch block commits instead of rolling back.
Rollback_commits(r) ==
    /\ r.pc = "rollback"
    /\ rowLock' = rowLock \ HeldBy(r)
    /\ requests' = Applied(r).requests
    /\ lots' = Applied(r).lots
    /\ sampling_lots' = Applied(r).sampling_lots
    /\ request_status_history' = Applied(r).history
    /\ Becomes(r, Release([Failure(r) EXCEPT !.txn = EmptyTxn]))
    /\ UNCHANGED <<nextId, clock>>

\* Mutant: a rollback that throws skips the release of the connection.
Rollback_leaks(r) ==
    /\ r.pc = "rollback"
    /\ rowLock' = rowLock \ HeldBy(r)
    /\ \/ Becomes(r, Release([Failure(r) EXCEPT !.txn = EmptyTxn]))
       \/ Becomes(r, Ended([r EXCEPT !.txn = EmptyTxn]))
    /\ UNCHANGED <<store, nextId, clock>>

\* await conn.rollback() of the catch block, the failure response and the
\* finally block.  The rollback itself may throw (the connection is gone,
\* and the store drops the transaction): server.ts then leaves the catch
\* block by the throw, after the finally block with its promise rejected;
\* the older handler answers from its outer catch.
Rollback(r) ==
    /\ r.pc = "rollback"
    /\ rowLock' = rowLock \ HeldBy(r)
    /\ \/ Becomes(r, Release([Failure(r) EXCEPT !.txn = EmptyTxn]))
       \/ \E o \in Unhandled(r) :
             Becomes(r, Release(IF r.kind = "create2"
                                THEN [Failure(r) EXCEPT !.txn = EmptyTxn]
                                ELSE [o EXCEPT !.txn = EmptyTxn]))
    /\ UNCHANGED <<store, nextId, clock>>

\* ---------------------------------------------- the schemas on their own
\* requestSchema.safeParse(body) of schema.ts: the outcome with its issues
\* or its data; it never throws.
SafeParse(p) ==
    /\ Cardinality(parsed) < NumParsed
    /\ parsed' = parsed \cup
          {[schema |-> "schema.ts", body |-> p,
            success |-> requestSchemaIssues(p) = {},
            issues |-> requestSchemaIssues(p),
            data |-> IF requestSchemaIssues(p) = {} THEN requestSchemaData(p)
                     ELSE NoData,
            thrown |-> FALSE]}
    /\ UNCHANGED <<store, nextId, rowLock, clock, tz, ops>>

\* requestSchema.parse(body) of the older schema.ts: the data, or a thrown
\* ZodError that carries the issues.
Parse(p) ==
    /\ Cardinality(parsed) < NumParsed
    /\ parsed' = parsed \cup
          {[schema |-> "older schema.ts", body |-> p,
            success |-> requestSchema2Issues(p) = {},
            issues |-> requestSchema2Issues(p),
            data |-> IF requestSchema2Issues(p) = {} THEN requestSchema2Data(p)
                     ELSE NoData,
            thrown |-> requestSchema2Issues(p) # {}]}
    /\ UNCHANGED <<store, nextId, rowLock, clock, tz, ops>>

\* The server may run in any time zone and validate at any time of day:
\* here five hours behind UTC, UTC or eight hours ahead, at 01:00 or 23:00
\* UTC of day 1.
TimeZones == {0 - Hours(5), 0, Hours(8)}
ValidationTimes == {SecondsPerDay + Hours(1), SecondsPerDay + Hours(23)}

InitValidator ==
    /\ clock \in ValidationTimes
    /\ tz \in TimeZones
    /\ requests = <<RequestRow(StoredLotTransfer, 1), RequestRow(StoredSampling, 1)>>
    /\ lots = <<LotRow(1, LotA), LotRow(1, LotB)>>
    /\ sampling_lots = <<SamplingLotRow(2, SLotA)>>
    /\ request_status_history = <<>>
    /\ nextId = 3
    /\ rowLock = {}
    /\ ops = EmptyBag
    /\ parsed = {}

NextValidator ==
    \/ \E p \in Bodies : SafeParse(p)
    \/ \E p \in Bodies2 : Parse(p)

SpecValidator == InitValidator /\ [][NextValidator]_vars

\* server.ts: its two handlers and their store calls.
Next ==
    \/ \E p \in Payloads : StartCreate(p)
    \/ \E u \in UpdateInputs : StartUpdate(u[1], u[2])
    \/ \E r \in Running : GetConnection(r)
    \/ \E r \in Running : BeginTransaction(r)
    \/ \E r \in Running : InsertRequest(r)
    \/ \E r \in Running : InsertLots(r)
    \/ \E r \in Running : InsertSamplingLots(r)
    \/ \E r \in Running : SelectStatus(r)
    \/ \E r \in Running : RollbackNotFound(r)
    \/ \E r \in Running : UpdateRow(r)
    \/ \E r \in Running : InsertHistory(r)
    \/ \E r \in Running : Commit(r)
    \/ \E r \in Running : Rollback(r)

Spec == Init /\ [][Next]_vars

\* The older server.ts: its only handler is the create.
NextOld ==
    \/ \E p \in Payloads : StartCreate2(p)
    \/ \E r \in Running : GetConnection(r)
    \/ \E r \in Running : BeginTransaction(r)
    \/ \E r \in Running : InsertRequest(r)
    \/ \E r \in Running : InsertLots(r)
    \/ \E r \in Running : Commit(r)
    \/ \E r \in Running : Rollback(r)

SpecOld == Init /\ [][NextOld]_vars

\* server.ts when the update-status requests for one identifier arrive one
\* after another: none is dispatched while another one for the same
\* identifier is being handled.
NoUpdateInFlightOn(id) ==
    \A r \in Running : (r.kind = "update" /\ r.pc # "done") => r.upd.id # id

StartUpdateInTurn(idp, b) ==
    /\ NoUpdateInFlightOn(idp.n)
    /\ StartUpdate(idp, b)

NextSeq ==
    \/ \E p \in Payloads : StartCreate(p)
    \/ \E u \in UpdateInputs : StartUpdateInTurn(u[1], u[2])
    \/ \E r \in Running : GetConnection(r)
    \/ \E r \in Running : BeginTransaction(r)
    \/ \E r \in Running : InsertRequest(r)
    \/ \E r \in Running : InsertLots(r)
    \/ \E r \in Running : InsertSamplingLots(r)
    \/ \E r \in Running : SelectStatus(r)
    \/ \E r \in Running : RollbackNotFound(r)
    \/ \E r \in Running : UpdateRow(r)
    \/ \E r \in Running : InsertHistory(r)
    \/ \E r \in Running : Commit(r)
    \/ \E r \in Running : Rollback(r)

SpecSeq == Init /\ [][NextSeq]_vars

\* ================================================================ claims
\* What a reader of the committed store sees for one request identifier.
LotsOf(id) == LET Mine(x) == x.request_id = id IN SelectSeq(lots, Mine)
SamplingLotsOf(id) == LET Mine(x) == x.request_id = id IN SelectSeq(sampling_lots, Mine)
HistoryOf(id) ==
    LET Mine(x) == x.request_id = id IN SelectSeq(request_status_history, Mine)

Visible(id) ==
    [parent |-> id \in DOMAIN requests,
     lots |-> LotsOf(id),
     sampling |-> SamplingLotsOf(id)]

Nothing == [parent |-> FALSE, lots |-> <<>>, sampling |-> <<>>]

Ids == 1..nextId

\* The invocation r takes a step.
Steps(r) == CopiesIn(r, ops') < CopiesIn(r, ops)
\* r2 is what the stepping invocation has become.
Result(r2) == CopiesIn(r2, ops') > CopiesIn(r2, ops)

IsCreate(r) == r.kind \in {"create", "create2"}
Succeeded(r) == r.pc = "done" /\ r.resp.status \in {200, 201}

\* C1: a create that fails after its parent row was inserted leaves, once
\* the handler has finished, no requests row and no lots or sampling_lots
\* row of that request in the committed store.
C1_CreateAtomicity ==
    \A r \in Running :
        (IsCreate(r) /\ r.pc = "done" /\ r.requestId # 0 /\ ~Succeeded(r))
            => Visible(r.requestId) = Nothing

\* A create failed after the parent insert (it holds an identifier) and
\* was answered 500.
C1_Witness ==
    \E r \in Running :
        /\ r.kind = "create" /\ r.pc = "done"
        /\ r.requestId # 0 /\ r.resp.status = 500

\* The line items of a validated payload, as rows of request id.
Complete(d, id) ==
    [parent |-> TRUE,
     lots |-> IF d.requestType \in LotKinds
              THEN [i \in 1..Len(Get(d.lots)) |-> LotRow(id, Get(d.lots)[i])]
              ELSE <<>>,
     sampling |-> IF d.requestType = "Sampling Request"
                  THEN [i \in 1..Len(Get(d.samplingLots)) |->
                          SamplingLotRow(id, Get(d.samplingLots)[i])]
                  ELSE <<>>]

\* C2: partial writes are never observable.  What a reader sees for an
\* identifier changes in one way only: from nothing to the parent row
\* together with every line item of the payload of the create that commits
\* (the initial database holds complete requests only).
C2_Step ==
    \A id \in Ids :
        \/ Visible(id)' = Visible(id)
        \/ /\ Visible(id) = Nothing
           /\ \E r \in Running :
                /\ r.kind = "create" /\ r.pc = "commit" /\ r.requestId = id
                /\ Steps(r)
                /\ Visible(id)' = Complete(r.data, id)

C2_NoPartialWrites == [][C2_Step]_vars

\* Two creates are interleaved: one waits for its commit with the parent
\* and two lots written, the other has written its parent only; neither is
\* visible.
C2_Witness ==
    \E r, q \in Running :
        /\ r.kind = "create" /\ r.pc = "commit" /\ Len(r.txn.lots) = 2
        /\ q.kind = "create" /\ q.pc \in {"insertLots", "insertSamplingLots"}
        /\ Visible(r.requestId) = Nothing /\ Visible(q.requestId) = Nothing

\* The workflow fields of a requests row.
Workflow(row) ==
    <<row.status, row.executor, row.started_at, row.completed_at,
      row.issue_note, row.updated_at>>

\* C3: the row update and the history insert of an update-status commit
\* together or not at all.  In every step a committed row changes its
\* workflow fields exactly when one history entry for it is added, and the
\* step that ends a failed update leaves every table as it was.
C3_Step ==
    /\ \A id \in DOMAIN requests :
          (Workflow(requests'[id]) # Workflow(requests[id]))
              <=> (Len(HistoryOf(id)') = Len(HistoryOf(id)) + 1)
    /\ Len(request_status_history') \in
          {Len(request_status_history), Len(request_status_history) + 1}
    /\ \A r \in Running :
          (r.kind = "update" /\ r.pc = "rollback" /\ Steps(r))
              => UNCHANGED store

C3_UpdateAtomicity == [][C3_Step]_vars

\* An update whose row update and history insert succeeded and whose commit
\* failed, about to roll back; the committed row is untouched.
C3_Witness ==
    \E r \in Running :
        /\ r.kind = "update" /\ r.pc = "rollback"
        /\ IsSome(r.txn.upd) /\ Len(r.txn.hist) = 1
        /\ requests[r.upd.id].status = "New"
        /\ HistoryOf(r.upd.id) = <<>>

\* C4: under concurrent update-status operations on one identifier the
\* history chain of the identifier is serial: the first entry starts from
\* New and every later entry starts from the status the entry before it
\* ended in.
C4_SerialHistory ==
    \A id \in DOMAIN requests :
        LET h == HistoryOf(id)
        IN \A i \in 1..Len(h) :
              h[i].old_status = IF i = 1 THEN "New" ELSE h[i - 1].new_status

\* The update-status invocations answered { ok: true }.
OkUpdates ==
    LET S == {r \in Running : r.kind = "update" /\ r.resp.status = 200}
    IN BagCardinality([r \in S |-> CopiesIn(r, ops)])

\* C5: when the updates of a request run one after another, every successful
\* update appends exactly one history entry, from the status the request had
\* just before to the requested status (the same status included), and
\* nothing else adds an entry.
C5_Step ==
    /\ (OkUpdates' # OkUpdates) <=> (request_status_history' # request_status_history)
    /\ (request_status_history' # request_status_history) =>
          \E r \in Running :
             /\ r.kind = "update" /\ r.pc = "commit" /\ Steps(r)
             /\ OkUpdates' = OkUpdates + 1
             /\ Len(request_status_history') = Len(request_status_history) + 1
             /\ SubSeq(request_status_history', 1, Len(request_status_history))
                    = request_status_history
             /\ LET e == request_status_history'[Len(request_status_history')]
                IN /\ e.request_id = r.upd.id
                   /\ e.old_status = requests[r.upd.id].status
                   /\ e.new_status = r.upd.status
                   /\ requests'[r.upd.id].status = r.upd.status

C5_HistoryRecordsEveryTransition == [][C5_Step]_vars

Pair(e) == <<e.old_status, e.new_status>>

\* New -> In Progress -> Completed on request 1 has left exactly the two
\* entries (New, In Progress) and (In Progress, Completed), in that order.
C5_Witness ==
    /\ Len(request_status_history) = 2
    /\ Len(HistoryOf(1)) = 2
    /\ Pair(HistoryOf(1)[1]) = <<"New", "In Progress">>
    /\ Pair(HistoryOf(1)[2]) = <<"In Progress", "Completed">>
    /\ OkUpdates = 2

\* A transition of request id into status st commits in this step.
CommitsInto(id, st) ==
    /\ Len(HistoryOf(id)') = Len(HistoryOf(id)) + 1
    /\ HistoryOf(id)'[Len(HistoryOf(id)')].new_status = st

\* C6: started_at is set by the first committed transition into In Progress
\* and completed_at by the first committed transition into Completed; once
\* set, neither changes again nor returns to null, whatever the interleaving.
C6_Step ==
    \A id \in DOMAIN requests :
        /\ IsSome(requests[id].started_at)
              => requests'[id].started_at = requests[id].started_at
        /\ IsSome(requests[id].completed_at)
              => requests'[id].completed_at = requests[id].completed_at
        /\ ~IsSome(requests[id].started_at)
              => (IsSome(requests'[id].started_at) <=> CommitsInto(id, "In Progress"))
        /\ ~IsSome(requests[id].completed_at)
              => (IsSome(requests'[id].completed_at) <=> CommitsInto(id, "Completed"))

C6_OnceOnlyTimestamps == [][C6_Step]_vars

\* Request 1 went into In Progress twice; started_at still holds the time
\* of the first transition, earlier than the last update.
C6_Witness ==
    /\ Len(HistoryOf(1)) = 2
    /\ HistoryOf(1)[1].new_status = "In Progress"
    /\ HistoryOf(1)[2].new_status = "In Progress"
    /\ IsSome(requests[1].started_at)
    /\ Get(requests[1].started_at) < requests[1].updated_at

\* C7: every committed request has at least one line item of the shape of
\* its kind and none of the other shape.
C7_LineItemShape ==
    \A id \in DOMAIN requests :
        IF requests[id].request_type = "Sampling Request"
        THEN Len(SamplingLotsOf(id)) >= 1 /\ Len(LotsOf(id)) = 0
        ELSE /\ requests[id].request_type \in LotKinds
             /\ Len(LotsOf(id)) >= 1 /\ Len(SamplingLotsOf(id)) = 0

\* A Sampling Request and a request with lots, both created by this server,
\* are committed.
C7_Witness ==
    \E r, q \in Running :
        /\ r.kind = "create" /\ Succeeded(r)
        /\ q.kind = "create" /\ Succeeded(q)
        /\ requests[r.resp.id].request_type = "Sampling Request"
        /\ requests[q.resp.id].request_type \in LotKinds

\* C8: an update-status whose SELECT finds no row never writes: it rolls
\* back and answers 404 with the connection released, or, when a store call
\* throws, takes the failure path; the tables and the locks stay as they
\* are.
C8_Step ==
    \A r \in Running :
        (/\ r.kind = "update" /\ r.upd.id \notin DOMAIN requests
         /\ r.pc \in {"selectStatus", "rollbackNotFound"} /\ Steps(r))
        => /\ UNCHANGED <<store, rowLock>>
           /\ \E r2 \in BagToSet(ops') :
                /\ Result(r2)
                /\ r2.txn = EmptyTxn
                /\ IF r.pc = "selectStatus"
                   THEN r2.pc \in {"rollbackNotFound", "rollback"}
                   ELSE \/ r2.pc = "rollback"
                        \/ /\ r2.pc = "done"
                           /\ r2.resp = [status |-> 404, body |-> "not found", id |-> 0]
                           /\ r2.conn = "released" /\ r2.releases = 1

C8_UnknownIdentifier == [][C8_Step]_vars

\* An update-status for an identifier without a row was answered 404; no
\* table has changed since the server started.
C8_Witness ==
    /\ \E r \in Running : r.kind = "update" /\ r.pc = "done" /\ r.resp.status = 404
    /\ request_status_history = <<>>
    /\ \A id \in DOMAIN requests : requests[id].status = "New"

\* A payload that passes the schema of section 4.1: a submitter, one of
\* the four kinds and at least one line item of the shape of the kind.
WellFormed(d) ==
    /\ d.username \notin {"", UNDEFINED, NULL}
    /\ \/ d.requestType \in LotKinds /\ IsSome(d.lots) /\ Len(Get(d.lots)) >= 1
       \/ /\ d.requestType = "Sampling Request"
          /\ IsSome(d.samplingLots) /\ Len(Get(d.samplingLots)) >= 1

\* C9: a create whose payload fails the schema goes no further than the
\* 400 answer with the issues: only well-formed payloads get a connection,
\* and an invocation answered 400 has acquired no connection, opened no
\* transaction and written nothing.
C9_ValidationFailsFast ==
    \A r \in Running :
        r.kind = "create" =>
            /\ r.pc # "done" => WellFormed(r.data)
            /\ r.resp.status = 400 =>
                  /\ r.pc = "done" /\ r.resp.body = "issues"
                  /\ r.conn = "none" /\ r.releases = 0
                  /\ r.txn = EmptyTxn /\ r.requestId = 0

\* A create was answered 400 and nothing was stored or reserved.
C9_Witness ==
    /\ \E r \in Running : r.kind = "create" /\ r.resp.status = 400
    /\ nextId = 3
    /\ DOMAIN requests = {1, 2}

\* C10: an invocation that left its transactional unit through a failed
\* store call (its connection is released and it reports neither success
\* nor not-found) has answered 500 with the generic message.
C10_GenericFailure ==
    \A r \in Running :
        (r.pc = "done" /\ r.conn = "released" /\ r.resp.status \notin {200, 201, 404})
            => r.resp.status = 500 /\ r.resp.body = "generic"

\* C11: every committed transition into Issue sets issue_note to the note
\* sent with that transition, or to null when none was sent, whatever note
\* the row held before.
C11_Step ==
    \A id \in DOMAIN requests :
        CommitsInto(id, "Issue") =>
            \E r \in Running :
                /\ r.kind = "update" /\ r.pc = "commit" /\ Steps(r)
                /\ r.upd.id = id /\ r.upd.status = "Issue"
                /\ requests'[id].issue_note = Coalesce(r.upd.note, NULL)
                /\ requests'[id].status = "Issue"

C11_IssueNoteLatest == [][C11_Step]_vars

\* Request 1 entered Issue with the note "damaged" and then again without a
\* note: the stored note is null.
C11_Witness ==
    /\ Len(HistoryOf(1)) = 2
    /\ HistoryOf(1)[1].new_status = "Issue" /\ HistoryOf(1)[1].note = "damaged"
    /\ HistoryOf(1)[2].new_status = "Issue" /\ HistoryOf(1)[2].note = NULL
    /\ requests[1].issue_note = NULL

\* C12: in every committed state a request whose issue_note is not null
\* has status Issue.
C12_IssueNoteOnlyInIssue ==
    \A id \in DOMAIN requests :
        requests[id].issue_note # NULL => requests[id].status = "Issue"

\* C13: a committed request on which no update-status has committed yet (it
\* has no history entry) has status New and null executor, started_at,
\* completed_at and issue_note; the request of every create answered with
\* an identifier is committed.
C13_InitialState ==
    /\ \A id \in DOMAIN requests :
          HistoryOf(id) = <<>> =>
              /\ requests[id].status = "New"
              /\ requests[id].executor = NULL
              /\ requests[id].started_at = None
              /\ requests[id].completed_at = None
              /\ requests[id].issue_note = NULL
    /\ \A r \in Running :
          (r.kind = "create" /\ Succeeded(r)) => r.resp.id \in DOMAIN requests

\* Request 3 was created by this server and read back in its initial state
\* while the first update-status on it has written its row update but has
\* not committed.
C13_Witness ==
    /\ \E r \in Running : r.kind = "create" /\ Succeeded(r) /\ r.resp.id = 3
    /\ \E q \in Running :
          /\ q.kind = "update" /\ q.upd.id = 3 /\ q.pc \in {"insertHistory", "commit"}
          /\ IsSome(q.txn.upd)
    /\ HistoryOf(3) = <<>>
    /\ requests[3].status = "New"

\* C14: the transition policy is permissive.  Each of the four statuses
\* passes the body schema, and an update-status on an existing request is
\* never answered 400 or 404 and never diverted by the status it reads:
\* after a SELECT that finds the row it goes on to the UPDATE, and its
\* commit answers ok with the row in the requested status, whatever the
\* status was.  Only a store call that throws takes it to the failure path.
C14_Step ==
    /\ \A st \in statusEnum :
          requestStatusUpdateSchemaIssues(Body(st, UNDEFINED, UNDEFINED)) = {}
    /\ \A r \in Running :
          (/\ r.kind = "update" /\ r.pc \notin {"done", "rollbackNotFound"}
           /\ r.upd.id \in DOMAIN requests /\ Steps(r))
          => \E r2 \in BagToSet(ops') :
                /\ Result(r2)
                /\ r2.resp.status \notin {400, 404}
                /\ r2.pc # "rollbackNotFound"
                /\ r.pc = "selectStatus" => r2.pc \in {"updateRow", "rollback"}
                /\ r.pc = "commit" =>
                      \/ r2.pc = "rollback"
                      \/ /\ r2.pc = "done" /\ r2.resp.status = 200
                         /\ requests'[r.upd.id].status = r.upd.status

C14_PermissiveTransitions == [][C14_Step]_vars

\* Request 1 was completed and then put back to New: Completed did not
\* block the transition.
C14_Witness ==
    /\ Len(HistoryOf(1)) = 2
    /\ Pair(HistoryOf(1)[1]) = <<"New", "Completed">>
    /\ Pair(HistoryOf(1)[2]) = <<"Completed", "New">>
    /\ requests[1].status = "New"
    /\ OkUpdates = 2

\* s is t with rows added at the end.
Extends(t, s) == Len(s) >= Len(t) /\ SubSeq(s, 1, Len(t)) = t

\* C15: the store is append-only.  In every step each committed requests
\* row stays (with its submitter and kind), and every committed history
\* entry, lot row and sampling-lot row stays at its place with the fields
\* it had; rows are only added.
C15_Step ==
    /\ DOMAIN requests \subseteq DOMAIN requests'
    /\ \A id \in DOMAIN requests :
          /\ requests'[id].username = requests[id].username
          /\ requests'[id].request_type = requests[id].request_type
    /\ Extends(request_status_history, request_status_history')
    /\ Extends(lots, lots')
    /\ Extends(sampling_lots, sampling_lots')

C15_AppendOnly == [][C15_Step]_vars

\* After a committed transition of request 1, a create committed request 3
\* with its lots, and the history entry and the stored lots are still
\* there.
C15_Witness ==
    /\ Len(request_status_history) = 1
    /\ request_status_history[1].request_id = 1
    /\ 3 \in DOMAIN requests
    /\ Len(lots) > 2
    /\ lots[1] = LotRow(1, LotA)

\* The positions at which a handler holds its connection.
InTransaction ==
    {"beginTransaction", "insertRequest", "insertLots", "insertSamplingLots",
     "selectStatus", "rollbackNotFound", "updateRow", "insertHistory", "commit",
     "rollback"}

\* C16: a connection is held exactly while its handler is between
\* getConnection and the finally block, conn.release() is never called
\* twice, and a handler that has finished has released the connection it
\* acquired exactly once (or never acquired one), on every exit path; so no
\* connection is held when no operation is in flight.
C16_ReleasedExactlyOnce ==
    \A r \in Running :
        /\ r.releases <= 1
        /\ r.conn = "held" <=> r.pc \in InTransaction
        /\ r.conn = "released" <=> r.releases = 1
        /\ r.pc = "done" => r.conn \in {"none", "released"}
        /\ r.conn = "released" => r.pc = "done"

\* An update-status ended through a rollback that threw (no answer was
\* sent) and another one through the not-found branch; both connections are
\* back in the pool, each released once.
C16_Witness ==
    \E r, q \in Running :
        /\ r.pc = "done" /\ r.conn = "released" /\ r.releases = 1
        /\ r.resp.status = 0
        /\ q.pc = "done" /\ q.conn = "released" /\ q.releases = 1
        /\ q.resp.status = 404

\* The creates that have been given an identifier.
Identified == {r \in Running : r.kind = "create" /\ r.requestId # 0}

\* C17: concurrent creates are independent.  The identifier a create is
\* given differs from that of every other create and of every stored
\* request, every line item it writes carries its own identifier, its
\* commit shows its parent with the line items of its own payload and
\* changes nothing of any other request, its rollback changes no table, and
\* none of its steps touches another invocation.
C17_Step ==
    /\ \A r \in Identified :
          /\ CopiesIn(r, ops) = 1
          /\ \A q \in Identified : q # r => q.requestId # r.requestId
          /\ r.requestId \in DOMAIN requests => Succeeded(r)
          /\ \A i \in 1..Len(r.txn.lots) : r.txn.lots[i].request_id = r.requestId
          /\ \A i \in 1..Len(r.txn.sampling) :
                r.txn.sampling[i].request_id = r.requestId
    /\ \A r \in Running :
          (r.kind = "create" /\ Steps(r)) =>
              /\ \A q \in Running : q # r => CopiesIn(q, ops') >= CopiesIn(q, ops)
              /\ r.pc # "commit" => UNCHANGED store
              /\ r.pc = "commit" =>
                    /\ \A id \in Ids : id # r.requestId => Visible(id)' = Visible(id)
                    /\ \A id \in DOMAIN requests : requests'[id] = requests[id]
                    /\ Visible(r.requestId)' \in {Nothing, Complete(r.data, r.requestId)}

C17_IndependentCreates == [][C17_Step]_vars

\* Two creates run interleaved: the one given identifier 3 has failed and
\* is about to roll back, the one given identifier 4 meanwhile committed and
\* is stored with its line items.
C17_Witness ==
    \E r, q \in Running :
        /\ r.kind = "create" /\ r.pc = "rollback" /\ r.requestId = 3
        /\ IsSome(r.txn.req)
        /\ q.kind = "create" /\ Succeeded(q) /\ q.resp.id = 4
        /\ Visible(3) = Nothing
        /\ Visible(4).parent
        /\ Len(Visible(4).lots) + Len(Visible(4).sampling) >= 1

\* An integer written as a decimal string, and the integer a quantity
\* denotes.
IsNumericString(q) ==
    /\ q.t = "string"
    /\ \/ AllDigits(q.s)
       \/ Len(q.s) >= 2 /\ q.s[1] = "-" /\ AllDigits(Tail(q.s))

IntegerGiven(q) == q.t = "number" \/ IsNumericString(q)

IntegerOf(q) ==
    IF q.t = "number" THEN q.n
    ELSE IF q.s[1] = "-" THEN 0 - DigitsValue(Tail(q.s))
    ELSE DigitsValue(q.s)

\* C18: the validator accepts a lot quantity given as a non-negative
\* integer, as a number or as a numeric string, and normalizes both to the
\* integer; it accepts an absent or null lot quantity; it rejects a
\* negative quantity and a string that is not numeric.  A sampling lot's
\* unit quantity is accepted, and normalized, exactly when it is a strictly
\* positive integer given as a number or a numeric string.
C18_QuantityCoercion ==
    \A r \in parsed :
        /\ \A q \in Quantities :
              r.body = LotBody(q) =>
                  /\ (IntegerGiven(q) /\ IntegerOf(q) >= 0) =>
                        /\ r.success
                        /\ Get(r.data.lots)[1].unitsQuantity = Num(IntegerOf(q))
                  /\ (IntegerGiven(q) /\ IntegerOf(q) < 0) => ~r.success
                  /\ (q.t = "string" /\ ~IsNumericString(q)) => ~r.success
                  /\ q.t \in {"null", "undefined"} => r.success
        /\ \A q \in UnitQuantities :
              (r.schema = "schema.ts" /\ r.body = SamplingBody(q, FarAhead)) =>
                  IF IntegerGiven(q) /\ IntegerOf(q) > 0
                  THEN /\ r.success
                       /\ Get(r.data.samplingLots)[1].unitQuantity
                              = Num(IntegerOf(q))
                  ELSE ~r.success

\* The calendar day a quality-release date falls on: the day written in a
\* date or a date-time without offset, the local day of an instant.
CalendarDay(x) ==
    IF x.form \in {"date", "local"} THEN x.day
    ELSE (x.day * SecondsPerDay + x.time + tz) \div SecondsPerDay

\* The current calendar day of the server.
Today == (clock + tz) \div SecondsPerDay

\* C19: for a Sampling payload, the quality-release date is an issue
\* exactly when it falls on a calendar day before the current day, whatever
\* the time of day of the date and of the validation; a value that is no
\* date is an issue too, and nothing is thrown.
C19_QrDateBoundary ==
    \A r \in parsed :
        \A d \in QrDates :
            (r.schema = "schema.ts" /\ r.body = SamplingBody(Num(3), d)) =>
                /\ ~r.thrown
                /\ r.success <=> r.issues = {}
                /\ IF d.form \in {"date", "local", "utc"}
                   THEN ("qrDate" \in r.issues) <=> (CalendarDay(d) < Today)
                   ELSE "qrDate" \in r.issues

\* The four request kinds and the line-item collection of a body.
RequestKinds == LotKinds \cup {"Sampling Request"}

LineItems(b) ==
    IF b.requestType = "Sampling Request" THEN b.samplingLots ELSE b.lots

\* C20: a body of one of the four kinds whose line-item collection is
\* missing or empty is rejected with an issue on that collection, and a
\* body of any other kind is rejected with the discriminator issue alone,
\* which no body of the four kinds gets; what is accepted keeps the kind it
\* was sent with.
C20_LineItemAndKindEdges ==
    \A r \in parsed :
        r.schema = "schema.ts" =>
            /\ (/\ r.body.requestType \in RequestKinds
                /\ (~IsSome(LineItems(r.body)) \/ Get(LineItems(r.body)) = <<>>))
               => /\ ~r.success
                  /\ (IF r.body.requestType = "Sampling Request"
                      THEN "samplingLots" ELSE "lots") \in r.issues
            /\ r.body.requestType \notin RequestKinds
               => /\ ~r.success
                  /\ r.issues = {"invalid_union_discriminator"}
                  /\ r.data = NoData
            /\ "invalid_union_discriminator" \in r.issues
               => r.body.requestType \notin RequestKinds
            /\ r.success
               => /\ r.data.requestType = r.body.requestType
                  /\ r.body.requestType \in RequestKinds

\* A body of an unknown kind that carries a valid lot was rejected with
\* the discriminator issue, and a Sampling Request with an empty
\* samplingLots array (and a lot besides) was rejected for its line items.
C20_Witness ==
    \E r, q \in parsed :
        /\ r.schema = "schema.ts" /\ r.body.requestType = "Bogus"
        /\ r.body.lots = Some(<<LotA>>)
        /\ r.issues = {"invalid_union_discriminator"}
        /\ q.schema = "schema.ts" /\ q.body.requestType = "Sampling Request"
        /\ q.body.samplingLots = Some(<<>>) /\ q.body.lots = Some(<<LotA>>)
        /\ "samplingLots" \in q.issues

\* C21: an optional descriptive field of a create payload that is absent
\* or null is accepted and stored as null, a non-empty string is accepted
\* and stored as given, and a present empty string is rejected by the
\* validator.
C21_OptionalFields ==
    \A r \in parsed :
        \A f \in FacilityLocations :
            (r.schema = "schema.ts"
             /\ r.body = [Payload("alice", "Lot Transfer", Some(<<LotA>>),
                                  UNDEFINED, None)
                            EXCEPT !.facilityLocation = f]) =>
                IF f = ""
                THEN ~r.success
                ELSE /\ r.success
                     /\ RequestRow(r.data, clock).facility_location
                            = (IF f \in {UNDEFINED, NULL} THEN NULL ELSE f)

\* The constraints of the create payload a body of ViolationBodies breaks,
\* each named by the field it is about.
Violated(p) ==
    (IF p.username = "" THEN {"username"} ELSE {})
    \cup (IF p.taskPriority \notin {"P1", "P2", "P3"}
          THEN {"taskPriority"} ELSE {})
    \cup (IF p.requestType \notin RequestKinds
          THEN {"invalid_union_discriminator"} ELSE {})

\* C22: when a create payload violates several constraints at once (an
\* empty submitter, an invalid priority, an unrecognized or missing request
\* kind), the failure returned holds one issue for every violated
\* constraint, not only the first one found.
C22_AllViolationsCollected ==
    \A r \in parsed :
        (r.schema = "schema.ts" /\ r.body \in ViolationBodies) =>
            /\ r.success <=> Violated(r.body) = {}
            /\ Violated(r.body) \subseteq r.issues

\* C23: an update-status request whose id is not a number is answered 400
\* (invalid id), whatever its body; one with a numeric id whose body names
\* a status outside the enumeration or an empty executor is answered 400
\* with the issues.  In both cases the handler ends there: it has obtained
\* no connection and opened no transaction, and the store is as it was.
C23_RejectedBeforeStore ==
    [][\A u \in UpdateInputs :
          (/\ StartUpdate(u[1], u[2])
           /\ (~u[1].finite \/ requestStatusUpdateSchemaIssues(u[2]) # {})) =>
              /\ UNCHANGED <<store, nextId, rowLock>>
              /\ \E r \in BagToSet(ops' (-) ops) :
                    /\ r.kind = "update" /\ r.pc = "done"
                    /\ r.resp.status = 400
                    /\ r.resp.body = (IF ~u[1].finite THEN "invalid id"
                                      ELSE "issues")
                    /\ r.conn = "none" /\ r.releases = 0
                    /\ r.txn = EmptyTxn]_vars

\* Both rejections have happened: the two rejected requests are over, hold
\* no connection, and no history entry has been written.
C23_Witness ==
    \E r, q \in Running :
        /\ r.kind = "update" /\ r.pc = "done" /\ r.resp.status = 400
        /\ r.resp.body = "invalid id" /\ r.conn = "none"
        /\ q.kind = "update" /\ q.pc = "done" /\ q.resp.status = 400
        /\ q.resp.body = "issues" /\ q.conn = "none"
        /\ request_status_history = <<>>

\* The columns of a request row an update-status never writes.
Static(row) ==
    [username |-> row.username, request_type |-> row.request_type,
     task_priority |-> row.task_priority,
     facility_location |-> row.facility_location,
     sampling_type |-> row.sampling_type, qr_date |-> row.qr_date,
     project_name |-> row.project_name]

\* C24: a step that commits an update-status on request X appends one
\* history entry, for X, and changes nothing else than the workflow fields
\* of X's row: X keeps its identifier, kind, submitter, priority,
\* descriptive fields and line items, and every other request keeps its row,
\* its line items and its history.  No other step changes a stored request
\* row.  This holds whichever updates on other identifiers are in flight.
C24_UpdateFrame ==
    [][LET n == Len(request_status_history)
       IN /\ (\E id \in DOMAIN requests : requests'[id] # requests[id])
                => Len(request_status_history') = n + 1
          /\ request_status_history' # request_status_history =>
                /\ Len(request_status_history') = n + 1
                /\ SubSeq(request_status_history', 1, n) = request_status_history
                /\ lots' = lots /\ sampling_lots' = sampling_lots
                /\ DOMAIN requests' = DOMAIN requests
                /\ LET X == request_status_history'[n + 1].request_id
                   IN /\ X \in DOMAIN requests
                      /\ Static(requests'[X]) = Static(requests[X])
                      /\ \A id \in DOMAIN requests \ {X} :
                            requests'[id] = requests[id]]_vars

\* Updates on requests 1 and 2 overlapped and both committed: the one on 2
\* took its timestamp first and committed last.  Each request has its one
\* history entry and its own new status, and the line items are as stored.
C24_Witness ==
    /\ Len(request_status_history) = 2
    /\ request_status_history[1].request_id = 1
    /\ request_status_history[2].request_id = 2
    /\ requests[2].updated_at < requests[1].updated_at
    /\ requests[1].status # "New" /\ requests[2].status = "In Progress"
    /\ Static(requests[1]) = Static(RequestRow(StoredLotTransfer, 1))
    /\ Len(lots) = 2 /\ Len(sampling_lots) = 1

\* The executors the update-status inputs supply.
Supplied == {u[2].executor : u \in UpdateInputs} \ {UNDEFINED}

\* C25: a committed update-status sets the request's executor to the
\* executor supplied with it and leaves the request's executor as it was
\* when none is supplied, and the history entry it appends records the
\* executor of the request at the time of the change: the entry's executor
\* equals the executor of the request row right after the update.
C25_ExecutorRecorded ==
    [][request_status_history' # request_status_history =>
          LET e == request_status_history'[Len(request_status_history')]
              X == e.request_id
          IN /\ requests'[X].executor \in {requests[X].executor} \cup Supplied
             /\ e.executor = requests'[X].executor]_vars

\* C26: in every committed state a stored Lot Transfer, Shipment Request or
\* Scrap Request has a null sampling type, a null quality-release date and
\* a null project name, and a stored Sampling Request has all three
\* non-null.
C26_VariantColumns ==
    \A id \in DOMAIN requests :
        /\ requests[id].request_type \in RequestKinds
        /\ requests[id].request_type \in LotKinds =>
              /\ requests[id].sampling_type = NULL
              /\ requests[id].qr_date = None
              /\ requests[id].project_name = NULL
        /\ requests[id].request_type = "Sampling Request" =>
              /\ requests[id].sampling_type \notin {NULL, UNDEFINED, ""}
              /\ IsSome(requests[id].qr_date)
              /\ requests[id].project_name \notin {NULL, UNDEFINED, ""}

\* Two creates have committed: a Scrap Request whose body also carried a
\* sampling type and sampling lots, stored with the three columns null, and
\* a Sampling Request stored with its type, date and project.
C26_Witness ==
    \E i, j \in DOMAIN requests \ {1, 2} :
        /\ requests[i].request_type = "Scrap Request"
        /\ requests[i].sampling_type = NULL
        /\ requests[i].qr_date = None
        /\ requests[j].request_type = "Sampling Request"
        /\ requests[j].sampling_type = "HTOL"
        /\ requests[j].qr_date = Some([day |-> 30, time |-> 0])
        /\ requests[j].project_name = "Apollo"

\* C27: every create and update-status request receives its one response,
\* whatever store call fails, a failure to obtain a connection and a
\* failure of the rollback that follows another failure included: a handler
\* of server.ts that has ended has answered its caller.
C27_AlwaysAnswered ==
    \A r \in Running :
        (r.kind \in {"create", "update"} /\ r.pc = "done") =>
            r.resp.status \in {200, 400, 404, 500}

\* C28: success is reported only after the commit.  A request that has
\* been answered with a success has finished and has nothing uncommitted;
\* when a create has answered with an identifier, the request row with that
\* identifier and its line items are committed; every update-status that
\* has answered ok has its history entry committed, and as many entries are
\* committed as updates have answered ok.
C28_SuccessAfterCommit ==
    /\ \A r \in Running :
          r.resp.status \in {200, 201} =>
              /\ r.pc = "done" /\ r.txn = EmptyTxn
              /\ IsCreate(r) =>
                    /\ r.resp.id = r.requestId
                    /\ r.resp.id \in DOMAIN requests
                    /\ Len(LotsOf(r.resp.id)) + Len(SamplingLotsOf(r.resp.id)) >= 1
    /\ OkUpdates = Len(request_status_history)

\* A create has answered with identifier 3 and an update-status on that
\* request has answered ok: the row, its lot and the history entry are
\* committed.
C28_Witness ==
    \E r, q \in Running :
        /\ r.kind = "create" /\ r.resp.status = 200 /\ r.resp.id = 3
        /\ q.kind = "update" /\ q.resp.status = 200
        /\ 3 \in DOMAIN requests /\ Len(LotsOf(3)) >= 1
        /\ Len(HistoryOf(3)) = 1
        /\ requests[3].status = "Completed"

\* C29: in every committed state the status of every request is the new
\* status of its most recently committed history entry, or New when it has
\* no history entry, however the update-status operations on it interleave.
C29_StatusAgreesWithHistory ==
    \A id \in DOMAIN requests :
        requests[id].status =
            (IF HistoryOf(id) = <<>> THEN "New"
             ELSE HistoryOf(id)[Len(HistoryOf(id))].new_status)

\* Two updates of request 1 overlapped: both read the status New, the one
\* to In Progress committed first and the one to Completed last.  The
\* request is Completed, as its last entry says.
C29_Witness ==
    /\ Len(HistoryOf(1)) = 2
    /\ Pair(HistoryOf(1)[1]) = <<"New", "In Progress">>
    /\ Pair(HistoryOf(1)[2]) = <<"New", "Completed">>
    /\ requests[1].status = "Completed"

====
